---- MODULE Spec2Model ----
(***************************************************************************)
(* Model of the PIO instruction-line classifier and constraint validator   *)
(* of tinypio: validatePIO in cmd/tinypio/main.go.                         *)
(*                                                                         *)
(* A Go string is modelled as a sequence of one-character strings, so that *)
(* every call of the strings package the validator makes (Split,           *)
(* TrimSpace, HasPrefix, Index, Fields, ToLower, Join) and every           *)
(* fmt.Sprintf is computed character by character.                         *)
(***************************************************************************)
EXTENDS Naturals, Integers, Sequences, FiniteSets, TLC

\* one call of validatePIO: its parameter, its locals, where it stands, and
\* what it returned
VARIABLES source, lines, i, instructions, errors, pc, result

\* the process-wide map validOpcodes: the keys it holds with value true
VARIABLE opcodes

\* a call of validatePIO running in a second goroutine, as a record of the
\* same parameter, locals, position and result
VARIABLE other

\* the host: whether exec.LookPath finds the pioasm assembler
VARIABLE pioasm

\* the reports the callers have received so far, each with its source
VARIABLE history

\* one request to /api/validate: the request, the response written so far,
\* where handleValidate stands, and whether it has read the body
VARIABLES req, resp, hpc, bodyRead

\* everything outside the call that runs in source .. result
outside == <<other, pioasm, history, req, resp, hpc, bodyRead>>

vars == <<source, lines, i, instructions, errors, pc, result, opcodes, outside>>

(***************************************************************************)
(* Bounds of the model.                                                    *)
(***************************************************************************)
\* longest free-form source, counted in tokens of Tok (a newline is a token)
MaxTokens == 3
\* the padded sources hold up to maxInstructions + MaxOver instruction lines
MaxOver == 2

(***************************************************************************)
(* The strings package, on sequences of characters.                        *)
(***************************************************************************)
NL == "\n"

\* unicode.IsSpace, restricted to the white space of the model's alphabet
IsSpace(c) == c \in {" ", "\t", "\r", NL}

Min(S) == CHOOSE x \in S : \A y \in S : x <= y

Max(S) == CHOOSE x \in S : \A y \in S : x >= y

\* strings.TrimSpace
TrimSpace(s) ==
    LET keep == {k \in 1..Len(s) : ~IsSpace(s[k])}
    IN  IF keep = {} THEN <<>> ELSE SubSeq(s, Min(keep), Max(keep))

\* strings.HasPrefix
HasPrefix(s, prefix) ==
    /\ Len(s) >= Len(prefix)
    /\ SubSeq(s, 1, Len(prefix)) = prefix

\* strings.Index: the 0-based index of the first instance of substr in s,
\* or -1 when there is none
Index(s, substr) ==
    LET at == {k \in 0..(Len(s) - Len(substr)) :
                   SubSeq(s, k + 1, k + Len(substr)) = substr}
    IN  IF at = {} THEN -1 ELSE Min(at)

\* s[from:] of Go, from a 0-based byte offset
SliceFrom(s, from) == SubSeq(s, from + 1, Len(s))

\* s[:to] of Go, to a 0-based byte offset
SliceTo(s, to) == SubSeq(s, 1, to)

\* strings.Split(s, sep) for a one-character separator
RECURSIVE Split(_, _)
Split(s, sep) ==
    LET idx == Index(s, <<sep>>)
    IN  IF idx < 0 THEN <<s>>
        ELSE <<SliceTo(s, idx)>> \o Split(SliceFrom(s, idx + 1), sep)

\* strings.Fields: the maximal runs of non-space characters
RECURSIVE Fields(_)
Fields(s) ==
    LET nonsp == {k \in 1..Len(s) : ~IsSpace(s[k])}
    IN  IF nonsp = {} THEN <<>>
        ELSE LET first == Min(nonsp)
                 sp    == {k \in first..Len(s) : IsSpace(s[k])}
                 stop  == IF sp = {} THEN Len(s) + 1 ELSE Min(sp)
             IN  <<SubSeq(s, first, stop - 1)>> \o Fields(SubSeq(s, stop, Len(s)))

\* strings.Join
RECURSIVE Join(_, _)
Join(elems, sep) ==
    IF Len(elems) = 0 THEN <<>>
    ELSE IF Len(elems) = 1 THEN elems[1]
    ELSE elems[1] \o sep \o Join(Tail(elems), sep)

UpperCase == <<"A","B","C","D","E","F","G","H","I","J","K","L","M",
               "N","O","P","Q","R","S","T","U","V","W","X","Y","Z">>

LowerCase == <<"a","b","c","d","e","f","g","h","i","j","k","l","m",
               "n","o","p","q","r","s","t","u","v","w","x","y","z">>

\* unicode.ToLower of one character
ToLowerChar(c) ==
    IF \E k \in 1..Len(UpperCase) : UpperCase[k] = c
    THEN LowerCase[CHOOSE k \in 1..Len(UpperCase) : UpperCase[k] = c]
    ELSE c

\* strings.ToLower
ToLower(s) == [k \in 1..Len(s) |-> ToLowerChar(s[k])]

Digits == <<"0","1","2","3","4","5","6","7","8","9">>

\* the %d verb of fmt.Sprintf, for a non-negative integer
RECURSIVE Itoa(_)
Itoa(n) ==
    IF n < 10 THEN <<Digits[n + 1]>>
    ELSE Itoa(n \div 10) \o <<Digits[(n % 10) + 1]>>


(***************************************************************************)
(* The validator's data.                                                   *)
(***************************************************************************)
\* var validOpcodes: the known PIO opcodes
validOpcodes ==
    { <<"j","m","p">>, <<"w","a","i","t">>, <<"i","n">>, <<"o","u","t">>, <<"p","u","s","h">>,
      <<"p","u","l","l">>, <<"m","o","v">>, <<"i","r","q">>, <<"s","e","t">>, <<"n","o","p">> }

\* the 32 of "len(instructions) > 32" and of its message
maxInstructions == 32

\* type PIOInstruction
PIOInstruction(line, op, args, comment) ==
    [Line |-> line, Op |-> op, Args |-> args, Comment |-> comment]

\* type ValidateResult
ValidateResult(valid, insts, errs) ==
    [Valid |-> valid, Instructions |-> insts, Errors |-> errs]

\* fmt.Sprintf("line %d: unknown opcode '%s'", i+1, op)
UnknownOpcodeError(n, op) ==
    <<"l","i","n","e"," ">> \o Itoa(n) \o <<":"," ","u","n","k","n","o","w","n"," ","o","p","c","o","d","e"," ","'">> \o op \o <<"'">>

\* fmt.Sprintf("program has %d instructions, max is 32", len(instructions))
TooManyError(n) ==
    <<"p","r","o","g","r","a","m"," ","h","a","s"," ">> \o Itoa(n) \o <<" ","i","n","s","t","r","u","c","t","i","o","n","s",","," ","m","a","x"," ","i","s"," ","3","2">>

(***************************************************************************)
(* The body of validatePIO's loop, step by step, for one line.             *)
(***************************************************************************)
\* faulty variant: the directive test is missing
IsDiscardedNoDirective(trimmed) ==
    \/ trimmed = <<>>
    \/ HasPrefix(trimmed, <<";">>)

\* the continue of the first test: a blank, comment-only or directive line
IsDiscarded(trimmed) ==
    \/ trimmed = <<>>
    \/ HasPrefix(trimmed, <<";">>)
    \/ HasPrefix(trimmed, <<".">>)

\* faulty variant: the comment is cut off and not kept
StripCommentDropsText(trimmed) ==
    LET idx == Index(trimmed, <<";">>)
    IN  IF idx >= 0
        THEN [comment |-> <<>>, trimmed |-> TrimSpace(SliceTo(trimmed, idx))]
        ELSE [comment |-> <<>>, trimmed |-> trimmed]

\* strip the inline comment: the comment and what is left of the line
StripComment(trimmed) ==
    LET idx == Index(trimmed, <<";">>)
    IN  IF idx >= 0
        THEN [comment |-> TrimSpace(SliceFrom(trimmed, idx + 1)),
              trimmed |-> TrimSpace(SliceTo(trimmed, idx))]
        ELSE [comment |-> <<>>, trimmed |-> trimmed]

\* faulty variant: the label ends at the last ':' instead of the first
StripLabelLastColon(trimmed) ==
    LET idx == Index(trimmed, <<":">>)
        last == Max({k \in 1..Len(trimmed) : trimmed[k] = ":"}) - 1
    IN  IF idx >= 0
        THEN LET rest == TrimSpace(SliceFrom(trimmed, last + 1))
             IN  IF rest = <<>> THEN [skip |-> TRUE, trimmed |-> trimmed]
                 ELSE [skip |-> FALSE, trimmed |-> rest]
        ELSE [skip |-> FALSE, trimmed |-> trimmed]

\* strip the label prefix: skip is the continue taken when nothing follows
StripLabel(trimmed) ==
    LET idx == Index(trimmed, <<":">>)
    IN  IF idx >= 0
        THEN LET rest == TrimSpace(SliceFrom(trimmed, idx + 1))
             IN  IF rest = <<>> THEN [skip |-> TRUE, trimmed |-> trimmed]
                 ELSE [skip |-> FALSE, trimmed |-> rest]
        ELSE [skip |-> FALSE, trimmed |-> trimmed]

\* faulty variant: the search is for "side_set", which no instruction holds
StripSideWrongKeyword(trimmed) ==
    LET idx == Index(trimmed, <<"s","i","d","e","_","s","e","t">>)
    IN  IF idx >= 0 THEN TrimSpace(SliceTo(trimmed, idx)) ELSE trimmed

\* faulty variant: the search for "side" ignores case
StripSideAnyCase(trimmed) ==
    LET idx == Index(ToLower(trimmed), <<"s","i","d","e">>)
    IN  IF idx >= 0 THEN TrimSpace(SliceTo(trimmed, idx)) ELSE trimmed

\* strip the side-set annotation
StripSide(trimmed) ==
    LET idx == Index(trimmed, <<"s","i","d","e">>)
    IN  IF idx >= 0 THEN TrimSpace(SliceTo(trimmed, idx)) ELSE trimmed

\* faulty variant: the delay annotation is left in place
StripDelayMissing(trimmed) == trimmed

\* strip the delay annotation [N]
StripDelay(trimmed) ==
    LET idx == Index(trimmed, <<"[">>)
    IN  IF idx >= 0 THEN TrimSpace(SliceTo(trimmed, idx)) ELSE trimmed

\* faulty variant: the mnemonic is kept as written
OpOfAsWritten(parts) == parts[1]

\* op := strings.ToLower(parts[0])
OpOf(parts) == ToLower(parts[1])

\* args := strings.Join(parts[1:], " ") when there is more than one part
ArgsOf(parts) ==
    IF Len(parts) > 1 THEN Join(Tail(parts), <<" ">>) ELSE <<>>

\* faulty variant: the label is stripped before the comment
ParseLineLabelBeforeComment(line, n) ==
    LET trimmed == TrimSpace(line)
    IN  IF IsDiscarded(trimmed) THEN [kind |-> "discard"]
        ELSE
        LET l == StripLabel(trimmed)
            c == StripComment(l.trimmed)
        IN  IF l.skip THEN [kind |-> "label"]
            ELSE
            LET parts == Fields(StripDelay(StripSide(c.trimmed)))
            IN  IF Len(parts) = 0 THEN [kind |-> "empty"]
                ELSE [kind |-> "inst",
                      inst |-> PIOInstruction(n, OpOf(parts), ArgsOf(parts),
                                              c.comment)]

\* faulty variant: a line left without fields is reported with an empty op
ParseLineEmptyReported(line, n) ==
    LET trimmed == TrimSpace(line)
    IN  IF IsDiscarded(trimmed) THEN [kind |-> "discard"]
        ELSE
        LET c == StripComment(trimmed)
            l == StripLabel(c.trimmed)
        IN  IF l.skip THEN [kind |-> "label"]
            ELSE
            LET parts == Fields(StripDelay(StripSide(l.trimmed)))
            IN  IF Len(parts) = 0
                THEN [kind |-> "inst",
                      inst |-> PIOInstruction(n, <<>>, <<>>, c.comment)]
                ELSE [kind |-> "inst",
                      inst |-> PIOInstruction(n, OpOf(parts), ArgsOf(parts),
                                              c.comment)]

\* One iteration of the loop on lines[n-1] (n is i+1): which way it leaves
\* the body, and the instruction it builds when it reaches the append.
ParseLine(line, n) ==
    LET trimmed == TrimSpace(line)
    IN  IF IsDiscarded(trimmed) THEN [kind |-> "discard"]
        ELSE
        LET c == StripComment(trimmed)
            l == StripLabel(c.trimmed)
        IN  IF l.skip THEN [kind |-> "label"]
            ELSE
            LET parts == Fields(StripDelay(StripSide(l.trimmed)))
            IN  IF Len(parts) = 0 THEN [kind |-> "empty"]
                ELSE [kind |-> "inst",
                      inst |-> PIOInstruction(n, OpOf(parts), ArgsOf(parts),
                                              c.comment)]

\* faulty variant: the message names the loop index i instead of i+1
OpcodeErrorsIndexLine(inst) ==
    IF inst.Op \notin opcodes
    THEN <<UnknownOpcodeError(inst.Line - 1, inst.Op)>>
    ELSE <<>>

\* the errors one appended instruction adds: if !validOpcodes[op]
OpcodeErrors(inst) ==
    IF inst.Op \notin opcodes
    THEN <<UnknownOpcodeError(inst.Line, inst.Op)>>
    ELSE <<>>

\* faulty variant: the limit is tested with >= instead of >
LengthErrorsAtLimit(insts) ==
    IF Len(insts) >= maxInstructions
    THEN <<TooManyError(Len(insts))>>
    ELSE <<>>

\* the errors added after the loop: if len(instructions) > 32
LengthErrors(insts) ==
    IF Len(insts) > maxInstructions
    THEN <<TooManyError(Len(insts))>>
    ELSE <<>>

\* Valid: len(errors) == 0
ValidOf(errs) == Len(errs) = 0


(***************************************************************************)
(* The source texts validatePIO is called with.                            *)
(***************************************************************************)
\* the set of sequences over S of length at most n
RECURSIVE SeqsUpTo(_, _)
SeqsUpTo(S, n) ==
    IF n = 0 THEN {<<>>}
    ELSE LET shorter == SeqsUpTo(S, n - 1)
         IN  shorter \cup {Append(t, x) : t \in shorter, x \in S}

\* the concatenation of a sequence of strings
RECURSIVE Concat(_)
Concat(ss) == IF ss = <<>> THEN <<>> ELSE Head(ss) \o Concat(Tail(ss))

\* the pieces free-form sources are made of: every character the loop
\* searches for, the side keyword, a known and an unknown mnemonic
Tok ==
    { <<" ">>,
      <<";">>,
      <<":">>,
      <<".">>,
      <<"[">>,
      <<"s","i","d","e">>,
      <<"n","o","p">>,
      <<"N","O","P">>,
      <<"b","a","d">>,
      <<"x">>,
      <<"\n">> }

\* every text of at most MaxTokens pieces
TokenSources == {Concat(t) : t \in SeqsUpTo(Tok, MaxTokens)}

Indents == { <<>>,
      <<" "," "," "," ">>,
      <<"\t">> }

Labels == { <<>>,
      <<"a","g","a","i","n",":">>,
      <<"s","i","d","e","_","l",":">>,
      <<"a","[","1","]",":">> }

Mnemonics == { <<>>,
      <<"n","o","p">>,
      <<"N","o","p">>,
      <<"o","u","t">>,
      <<"S","E","T">>,
      <<"b","a","d","o","p">> }

Operands == { <<>>,
      <<"p","i","n","s",","," ","1">>,
      <<"x">> }

SideSets == { <<>>,
      <<"s","i","d","e"," ","0">>,
      <<"s","i","d","e"," ","9","9">> }

Delays == { <<>>,
      <<"[","1","]">>,
      <<"[","4","0","]">> }

Comments == { <<>>,
      <<";">>,
      <<";"," ","L","o","o","p">>,
      <<";"," ","B","i","t"," ","i","s"," ","1",":"," ","l","o","n","g"," ","p","u","l","s","e">> }

Gaps == { <<" ">>,
      <<" "," ">> }

\* text, preceded by a gap when there is text
Gapped(gap, text) == IF text = <<>> THEN <<>> ELSE gap \o text

\* one line: indent, label, mnemonic, operands, side-set, delay, comment
LineSources ==
    {ind \o lab \o Gapped(gap, op) \o Gapped(gap, arg) \o Gapped(gap, sd)
         \o Gapped(gap, dl) \o Gapped(gap, cm) :
        ind \in Indents, lab \in Labels, op \in Mnemonics, arg \in Operands,
        sd \in SideSets, dl \in Delays, cm \in Comments, gap \in Gaps}

\* n copies of the pair of lines a, b in turn: a, b, a, b, ...
RECURSIVE Alternate(_, _, _)
Alternate(a, b, n) ==
    IF n = 0 THEN <<>> ELSE <<a>> \o Alternate(b, a, n - 1)

PadHeads ==
    { <<>>,
      <<<<".","p","r","o","g","r","a","m"," ","p">>>>,
      <<<<"b","a","d"," ","x">>>>,
      <<<<"s","i","d","e"," ","1">>, <<"l",":"," ","[","3","]">>>> }

PadLines == { <<"n","o","p">>,
      <<" "," "," "," ","n","o","p">>,
      <<"b","a","d">>,
      <<"a","g","a","i","n",":">>,
      <<".","w","r","a","p">>,
      <<"N","O","P"," ",";"," ","c">> }

PadTails == {<<>>, <<NL>>}

\* how many padding lines: around the limit of 32 instructions
PadCounts == (maxInstructions - 1)..(maxInstructions + MaxOver)

\* long programs: a head, then alternating padding lines, with or
\* without a final newline
PadSources ==
    {Join(hd \o Alternate(a, b, n), <<NL>>) \o tl :
        hd \in PadHeads, a \in PadLines, b \in PadLines, n \in PadCounts,
        tl \in PadTails}

\* var examples: squarewave
ExampleSquarewave ==
    <<".","p","r","o","g","r","a","m"," ","s","q","u","a","r","e","w","a","v","e","\n">> \o
    <<"a","g","a","i","n",":","\n">> \o
    <<" "," "," "," ","s","e","t"," ","p","i","n","s",","," ","1"," ","[","1","]"," "," ",";"," ","D","r","i","v","e"," ","p","i","n"," ","h","i","g","h"," ","a","n","d"," ","d","e","l","a","y","\n">> \o
    <<" "," "," "," ","s","e","t"," ","p","i","n","s",","," ","0"," "," "," "," "," "," "," ",";"," ","D","r","i","v","e"," ","p","i","n"," ","l","o","w","\n">> \o
    <<" "," "," "," ","j","m","p"," ","a","g","a","i","n"," "," "," "," "," "," "," "," "," ",";"," ","L","o","o","p">>

\* var examples: ws2812
ExampleWs2812 ==
    <<".","p","r","o","g","r","a","m"," ","w","s","2","8","1","2","\n">> \o
    <<".","s","i","d","e","_","s","e","t"," ","1","\n">> \o
    <<"b","i","t","l","o","o","p",":","\n">> \o
    <<" "," "," "," ","o","u","t"," ","x",","," ","1"," "," "," "," "," "," "," ","s","i","d","e"," ","0"," ","[","2","]"," "," ",";"," ","S","h","i","f","t"," ","1"," ","b","i","t",","," ","d","r","i","v","e"," ","l","o","w","\n">> \o
    <<" "," "," "," ","j","m","p"," ","!","x",","," ","d","o","_","z","e","r","o"," ","s","i","d","e"," ","1"," ","[","1","]"," ",";"," ","B","r","a","n","c","h"," ","o","n"," ","b","i","t"," ","v","a","l","u","e","\n">> \o
    <<" "," "," "," ","j","m","p"," ","b","i","t","l","o","o","p"," "," "," "," ","s","i","d","e"," ","1"," ","[","4","]"," "," ",";"," ","B","i","t"," ","i","s"," ","1",":"," ","l","o","n","g"," ","p","u","l","s","e","\n">> \o
    <<"d","o","_","z","e","r","o",":","\n">> \o
    <<" "," "," "," ","n","o","p"," "," "," "," "," "," "," "," "," "," "," "," ","s","i","d","e"," ","0"," ","[","4","]"," "," ",";"," ","B","i","t"," ","i","s"," ","0",":"," ","s","h","o","r","t"," ","p","u","l","s","e">>

\* var examples: spi_tx
ExampleSpiTx ==
    <<".","p","r","o","g","r","a","m"," ","s","p","i","_","t","x","\n">> \o
    <<".","s","i","d","e","_","s","e","t"," ","1","\n">> \o
    <<" "," "," "," ","o","u","t"," ","p","i","n","s",","," ","1"," "," ","s","i","d","e"," ","0"," ","[","1","]"," "," ",";"," ","W","r","i","t","e"," ","d","a","t","a",","," ","c","l","o","c","k"," ","l","o","w","\n">> \o
    <<" "," "," "," ","n","o","p"," "," "," "," "," "," "," "," "," "," ","s","i","d","e"," ","1"," ","[","1","]"," "," ",";"," ","C","l","o","c","k"," ","h","i","g","h">>

\* the sources of main_test.go and of docs/USAGE.md
TestSources ==
    { <<".","p","r","o","g","r","a","m"," ","s","q","u","a","r","e","w","a","v","e","\n","a","g","a","i","n",":","\n"," "," "," "," ","s","e","t"," ","p","i","n","s",","," ","1","\n"," "," "," "," ","s","e","t"," ","p","i","n","s",","," ","0","\n"," "," "," "," ","j","m","p"," ","a","g","a","i","n">>,
      <<" "," "," "," ","b","a","d","o","p"," ","p","i","n","s",","," ","1">>,
      <<" "," "," "," ","o","u","t"," ","p","i","n","s",","," ","1"," "," ","s","i","d","e"," ","0"," ","[","1","]","\n"," "," "," "," ","n","o","p"," "," "," "," "," "," "," "," "," "," ","s","i","d","e"," ","1"," ","[","2","]">>,
      <<" "," "," "," ","s","e","t"," ","p","i","n","s",","," ","1","\n"," "," "," "," ","j","m","p"," ","0">>,
      <<".","p","r","o","g","r","a","m"," ","t","e","s","t","\n","s","e","t"," ","p","i","n","s",","," ","1","\n","j","m","p"," ","0">> }

\* lines at the edges of the stripping rules: side inside an operand or a
\* mnemonic, SIDE in capitals, a line that is only an annotation, mnemonics
\* and operands in capitals
EdgeSources ==
    { <<"j","m","p"," ","s","i","d","e","_","l","o","o","p">>,
      <<"S","I","D","E"," ","1">>,
      <<"n","o","p"," ","S","i","d","e"," ","1">>,
      <<"m","o","v"," ","x",","," ","S","I","D","E">>,
      <<"S","i","d","e">>,
      <<"s","i","d","e"," ","1">>,
      <<"[","3","]">>,
      <<"a","g","a","i","n",":"," ","s","i","d","e"," ","1">>,
      <<"l",":"," ","[","3","]">>,
      <<"N","O","P">>,
      <<"N","o","p"," ","X",","," ","Y">>,
      <<"S","E","T"," ","P","I","N","S",","," ","1">>,
      <<"i","n","s","i","d","e"," ","x">>,
      <<"n","o","p","s","i","d","e">>,
      <<"n","o","p"," ","[","1","]"," ","S","I","D","E">>,
      <<"m","o","v"," ","o","s","r",","," ","~","x"," ",";"," ","S","i","d","e",":"," ","1">>,
      <<"\t","J","M","P"," "," ","!","X",",","\t","T","o","p">>,
      <<"s","i","d","e"," ","1","\n","n","o","p","\n","[","3","]">>,
      <<"N","O","P","\n","N","o","p","\n","n","o","p">>,
      <<"j","m","p"," ","s","i","d","e","_","l","o","o","p","\n","S","I","D","E"," ","1","\n","n","o","p","s","i","d","e","\n","m","o","v"," ","x",","," ","S","i","d","e">>,
      <<"j","m","p"," ","s","i","d","e","_","l","o","o","p","\n","s","i","d","e","_","l","o","o","p",":","\n"," "," ","n","o","p"," ","s","i","d","e"," ","1">> }

Sources ==
    TokenSources \cup LineSources \cup PadSources \cup TestSources
        \cup EdgeSources
        \cup {ExampleSquarewave, ExampleWs2812, ExampleSpiTx}

(***************************************************************************)
(* validatePIO(source), one step per iteration of its loop.                *)
(***************************************************************************)
\* the zero ValidateResult, before the return
NoResult == ValidateResult(FALSE, <<>>, <<>>)

\* a goroutine that is not in validatePIO
NoCall ==
    [source |-> <<>>, lines |-> <<>>, i |-> 0, instructions |-> <<>>,
     errors |-> <<>>, pc |-> "idle", result |-> NoResult]

\* no request has come in, nothing has been written
NoRequest ==
    [method |-> "",
     body |-> [json |-> "empty", field |-> "absent", source |-> <<>>,
               trailing |-> FALSE]]

NoResponse == [status |-> 0, text |-> <<>>, json |-> <<>>]

Init ==
    /\ source \in Sources
    /\ lines = Split(source, NL)
    /\ i = 0
    /\ instructions = <<>>
    /\ errors = <<>>
    /\ pc = "loop"
    /\ result = NoResult
    /\ opcodes = validOpcodes
    /\ other = NoCall
    /\ pioasm = FALSE
    /\ history = <<>>
    /\ req = NoRequest
    /\ resp = NoResponse
    /\ hpc = "idle"
    /\ bodyRead = FALSE

\* faulty variant: instructions are numbered by their count, not by their line
CurrentCountsInstructions ==
    ParseLine(lines[i + 1], Len(instructions) + 1)

\* the iteration the loop is about to run
Current == ParseLine(lines[i + 1], i + 1)

\* a blank, comment-only or directive line: continue
SkipDiscarded ==
    /\ pc = "loop"
    /\ i < Len(lines)
    /\ Current.kind = "discard"
    /\ i' = i + 1
    /\ UNCHANGED <<source, lines, instructions, errors, pc, result>>
    /\ UNCHANGED <<opcodes, outside>>

\* a label with nothing after it: continue
SkipLabel ==
    /\ pc = "loop"
    /\ i < Len(lines)
    /\ Current.kind = "label"
    /\ i' = i + 1
    /\ UNCHANGED <<source, lines, instructions, errors, pc, result>>
    /\ UNCHANGED <<opcodes, outside>>

\* no field is left after the annotations are stripped: continue
SkipEmpty ==
    /\ pc = "loop"
    /\ i < Len(lines)
    /\ Current.kind = "empty"
    /\ i' = i + 1
    /\ UNCHANGED <<source, lines, instructions, errors, pc, result>>
    /\ UNCHANGED <<opcodes, outside>>

\* faulty variant: an instruction whose opcode is rejected is not reported
AppendOnlyValid ==
    /\ pc = "loop"
    /\ i < Len(lines)
    /\ Current.kind = "inst"
    /\ instructions' = IF Current.inst.Op \in opcodes
                       THEN Append(instructions, Current.inst)
                       ELSE instructions
    /\ errors' = errors \o OpcodeErrors(Current.inst)
    /\ i' = i + 1
    /\ UNCHANGED <<source, lines, pc, result>>
    /\ UNCHANGED <<opcodes, outside>>

\* faulty variant: an instruction equal to an earlier one is not appended again
AppendDeduplicated ==
    /\ pc = "loop"
    /\ i < Len(lines)
    /\ Current.kind = "inst"
    /\ instructions' =
           IF \E k \in 1..Len(instructions) :
                  /\ instructions[k].Op = Current.inst.Op
                  /\ instructions[k].Args = Current.inst.Args
           THEN instructions
           ELSE Append(instructions, Current.inst)
    /\ errors' = errors \o OpcodeErrors(Current.inst)
    /\ i' = i + 1
    /\ UNCHANGED <<source, lines, pc, result>>
    /\ UNCHANGED <<opcodes, outside>>

\* faulty variant: only the first unknown opcode of a pass is recorded
AppendFirstErrorOnly ==
    /\ pc = "loop"
    /\ i < Len(lines)
    /\ Current.kind = "inst"
    /\ instructions' = Append(instructions, Current.inst)
    /\ errors' = IF errors = <<>> THEN OpcodeErrors(Current.inst) ELSE errors
    /\ i' = i + 1
    /\ UNCHANGED <<source, lines, pc, result>>
    /\ UNCHANGED <<opcodes, outside>>

\* faulty variant: every op looked up is stored in the map, so a later
\* lookup of the same op finds it
AppendRemembersOpcode ==
    /\ pc = "loop"
    /\ i < Len(lines)
    /\ Current.kind = "inst"
    /\ instructions' = Append(instructions, Current.inst)
    /\ errors' = errors \o OpcodeErrors(Current.inst)
    /\ opcodes' = opcodes \cup {Current.inst.Op}
    /\ i' = i + 1
    /\ UNCHANGED <<source, lines, pc, result>>
    /\ UNCHANGED outside

\* the instruction is appended and its opcode checked
AppendInstruction ==
    /\ pc = "loop"
    /\ i < Len(lines)
    /\ Current.kind = "inst"
    /\ instructions' = Append(instructions, Current.inst)
    /\ errors' = errors \o OpcodeErrors(Current.inst)
    /\ i' = i + 1
    /\ UNCHANGED <<source, lines, pc, result>>
    /\ UNCHANGED <<opcodes, outside>>

\* faulty variant: Valid is computed before the length check
ReturnValidBeforeLengthCheck ==
    /\ pc = "loop"
    /\ i = Len(lines)
    /\ errors' = errors \o LengthErrors(instructions)
    /\ result' = ValidateResult(ValidOf(errors), instructions, errors')
    /\ pc' = "done"
    /\ UNCHANGED <<source, lines, i, instructions>>
    /\ UNCHANGED <<opcodes, outside>>

\* after the loop: the length check and the return
Return ==
    /\ pc = "loop"
    /\ i = Len(lines)
    /\ errors' = errors \o LengthErrors(instructions)
    /\ result' = ValidateResult(ValidOf(errors'), instructions, errors')
    /\ pc' = "done"
    /\ UNCHANGED <<source, lines, i, instructions>>
    /\ UNCHANGED <<opcodes, outside>>

Next ==
    \/ SkipDiscarded
    \/ SkipLabel
    \/ SkipEmpty
    \/ AppendInstruction
    \/ Return

Spec == Init /\ [][Next]_vars


(***************************************************************************)
(* Vocabulary of the properties: the report, and the spec's own words for  *)
(* the opcode set and for the two kinds of error.                          *)
(***************************************************************************)
\* the call has returned: result is the report of validatePIO(source)
Done == pc = "done"

\* the fixed opcode set as the specification lists it
SpecOpcodes ==
    { <<"j","m","p">>, <<"w","a","i","t">>, <<"i","n">>, <<"o","u","t">>, <<"p","u","s","h">>,
      <<"p","u","l","l">>, <<"m","o","v">>, <<"i","r","q">>, <<"s","e","t">>, <<"n","o","p">> }

\* "line <N>: unknown opcode '<op>'"
UnknownOpcodeText(n, op) ==
    <<"l","i","n","e"," ">> \o Itoa(n) \o <<":"," ","u","n","k","n","o","w","n"," ","o","p","c","o","d","e"," ","'">> \o op \o <<"'">>

\* "program has <count> instructions, max is 32"
TooManyText(count) ==
    <<"p","r","o","g","r","a","m"," ","h","a","s"," ">> \o Itoa(count) \o <<" ","i","n","s","t","r","u","c","t","i","o","n","s",","," ","m","a","x"," ","i","s"," ","3","2">>

\* an error that names a line / the error about the program's length
IsLineError(e) == HasPrefix(e, <<"l","i","n","e"," ">>)

IsLengthError(e) == HasPrefix(e, <<"p","r","o","g","r","a","m"," ","h","a","s"," ">>)

\* the unknown-opcode errors the instructions call for, in their order
RECURSIVE ExpectedOpcodeErrors(_)
ExpectedOpcodeErrors(insts) ==
    IF insts = <<>> THEN <<>>
    ELSE (IF Head(insts).Op \in SpecOpcodes THEN <<>>
          ELSE <<UnknownOpcodeText(Head(insts).Line, Head(insts).Op)>>)
         \o ExpectedOpcodeErrors(Tail(insts))

\* the instructions of every line that leaves the loop body by the append
RECURSIVE ClassifiedFrom(_, _)
ClassifiedFrom(ls, n) ==
    IF ls = <<>> THEN <<>>
    ELSE LET p == ParseLine(Head(ls), n)
         IN  (IF p.kind = "inst" THEN <<p.inst>> ELSE <<>>)
             \o ClassifiedFrom(Tail(ls), n + 1)

\* C1: the report returned by validatePIO has valid = true if and only if
\* its errors list is empty.
C1_ValidIffNoErrors ==
    Done => (result.Valid <=> result.Errors = <<>>)

\* a report with instructions that is invalid because of two errors
C1_Witness ==
    /\ Done
    /\ ~result.Valid
    /\ Len(result.Errors) = 2
    /\ Len(result.Instructions) > 2

\* C2: the errors list holds exactly one "line <N>: unknown opcode '<op>'"
\* for each reported instruction whose op is not in the opcode set, with
\* that instruction's line and op, none for an instruction whose op is in
\* the set, in source order, and an unknown opcode never suppresses the
\* check of a later line.
C2_UnknownOpcodeErrors ==
    Done =>
        SelectSeq(result.Errors, IsLineError)
            = ExpectedOpcodeErrors(result.Instructions)

\* unknown, known, unknown: the second unknown opcode is still reported
C2_Witness ==
    /\ Done
    /\ Len(result.Instructions) >= 3
    /\ result.Instructions[1].Op \notin SpecOpcodes
    /\ result.Instructions[2].Op \in SpecOpcodes
    /\ result.Instructions[3].Op \notin SpecOpcodes
    /\ Len(SelectSeq(result.Errors, IsLineError)) >= 2

\* C3: with more than 32 reported instructions the errors list holds
\* exactly one "program has <count> instructions, max is 32", with the
\* exact count, after every unknown-opcode error and however many of those
\* there are; with 32 or fewer it holds none.
C3_LengthError ==
    Done =>
        LET count == Len(result.Instructions)
            errs  == result.Errors
        IN  IF count > 32
            THEN /\ errs # <<>>
                 /\ errs[Len(errs)] = TooManyText(count)
                 /\ \A k \in 1..(Len(errs) - 1) :
                        /\ ~IsLengthError(errs[k])
                        /\ IsLineError(errs[k])
            ELSE \A k \in 1..Len(errs) : ~IsLengthError(errs[k])

\* 33 instructions, some of them unknown opcodes: the length error is last
C3_Witness ==
    /\ Done
    /\ Len(result.Instructions) = 33
    /\ Len(result.Errors) > 2
    /\ IsLengthError(result.Errors[Len(result.Errors)])

\* C4: the instructions field holds the full classified sequence: an
\* instruction rejected as an unknown opcode, and every instruction beyond
\* the 32nd, is still present; no error removes or truncates one.
C4_InstructionsComplete ==
    Done => result.Instructions = ClassifiedFrom(lines, 1)

\* an over-long program with rejected opcodes beyond the 32nd instruction
C4_Witness ==
    /\ Done
    /\ Len(result.Instructions) = 33
    /\ result.Instructions[33].Op \notin SpecOpcodes
    /\ ~result.Valid


(***************************************************************************)
(* What a source line is, read off its characters.                         *)
(***************************************************************************)
\* the positions of the line's characters that are not white space
NonSpace(line) == {k \in 1..Len(line) : ~IsSpace(line[k])}

Blank(line) == NonSpace(line) = {}

\* the first character that is not white space, of a line that has one
FirstChar(line) == line[Min(NonSpace(line))]

CommentOnly(line) == ~Blank(line) /\ FirstChar(line) = ";"

DirectiveLine(line) == ~Blank(line) /\ FirstChar(line) = "."

\* the text before the first ';', the whole line when it has none
CodePart(line) ==
    LET semi == {k \in 1..Len(line) : line[k] = ";"}
    IN  IF semi = {} THEN line ELSE SubSeq(line, 1, Min(semi) - 1)

\* the text after the first ';'
CommentPart(line) ==
    LET semi == {k \in 1..Len(line) : line[k] = ";"}
    IN  SubSeq(line, Min(semi) + 1, Len(line))

\* the positions of the colons of a text
Colons(text) == {k \in 1..Len(text) : text[k] = ":"}

\* the text after the first ':' of a text that has one
AfterColon(text) == SubSeq(text, Min(Colons(text)) + 1, Len(text))

\* a label, and only white space after its colon, before any comment
LabelOnly(line) ==
    /\ Colons(CodePart(line)) # {}
    /\ Blank(AfterColon(CodePart(line)))

\* the reported instructions of source line n, as positions in the report
InstAt(n) ==
    {k \in 1..Len(result.Instructions) : result.Instructions[k].Line = n}

\* the errors of the report that name source line n
ErrorsAt(n) ==
    {k \in 1..Len(result.Errors) :
        HasPrefix(result.Errors[k], <<"l","i","n","e"," ">> \o Itoa(n) \o <<":">>)}

\* C5: each reported instruction has a line L with 1 <= L <= the number of
\* newline-separated lines of the source, L counts the discarded lines
\* too, and the source line at L is not blank, not comment-only, not a
\* directive and not label-only.
C5_LineNumbers ==
    Done =>
        /\ Len(lines) = Cardinality({k \in 1..Len(source) : source[k] = NL}) + 1
        /\ \A k \in 1..Len(result.Instructions) :
               LET L == result.Instructions[k].Line
               IN  /\ 1 <= L
                   /\ L <= Len(lines)
                   /\ ~Blank(lines[L])
                   /\ ~CommentOnly(lines[L])
                   /\ ~DirectiveLine(lines[L])
                   /\ ~LabelOnly(lines[L])

\* a directive first, then two instructions: they are lines 2 and 3
C5_Witness ==
    /\ Done
    /\ Len(lines) = 3
    /\ DirectiveLine(lines[1])
    /\ Len(result.Instructions) = 2
    /\ result.Instructions[1].Line = 2
    /\ result.Instructions[2].Line = 3

\* C6: the instructions are in source order, never reordered or
\* deduplicated: line values strictly increase, a source line contributes
\* at most one instruction, and identical instruction lines at different
\* positions both appear.
C6_SourceOrder ==
    Done =>
        /\ \A k \in 1..(Len(result.Instructions) - 1) :
               result.Instructions[k].Line < result.Instructions[k + 1].Line
        /\ \A n \in 1..Len(lines) : Cardinality(InstAt(n)) <= 1
        /\ \A a, b \in 1..Len(lines) :
               (lines[a] = lines[b] /\ InstAt(a) # {}) => InstAt(b) # {}

\* the same instruction line twice, with another line between, both reported
C6_Witness ==
    /\ Done
    /\ \E a, b \in 1..Len(lines) :
           /\ a + 1 < b
           /\ lines[a] = lines[b]
           /\ InstAt(a) # {}
           /\ InstAt(b) # {}
           /\ InstAt(a) # InstAt(b)

\* C7: a line that, trimmed, is empty or begins with ';' or with '.' gives
\* no instruction and no error, whatever else it contains.
C7_DiscardedLines ==
    Done =>
        \A n \in 1..Len(lines) :
            (Blank(lines[n]) \/ CommentOnly(lines[n]) \/ DirectiveLine(lines[n]))
                => (InstAt(n) = {} /\ ErrorsAt(n) = {})

\* a directive line that holds the side keyword gave nothing
C7_Witness ==
    /\ Done
    /\ \E n \in 1..Len(lines) :
           /\ DirectiveLine(lines[n])
           /\ Index(lines[n], <<"s","i","d","e">>) >= 0
           /\ InstAt(n) = {}
    /\ result.Instructions # <<>>


(***************************************************************************)
(* What a text classifies to, as a set: empty, or one op with its args.    *)
(***************************************************************************)
\* the op and args the report gives for source line n
OutcomeAt(n) ==
    {[op |-> result.Instructions[k].Op, args |-> result.Instructions[k].Args] :
        k \in InstAt(n)}

\* the op and args of a text that holds neither comment nor label:
\* annotations stripped, split into fields
TextOutcome(text) ==
    LET parts == Fields(StripDelay(StripSide(text)))
    IN  IF parts = <<>> THEN {}
        ELSE {[op |-> OpOf(parts), args |-> ArgsOf(parts)]}

\* the same for a whole line that holds neither ';' nor ':'
PlainLineOutcome(text) ==
    IF Blank(text) \/ DirectiveLine(text) THEN {} ELSE TextOutcome(text)

\* the line has a label: it is not discarded at the first test and has a
\* ':' before any comment
HasLabel(line) ==
    /\ ~Blank(line)
    /\ ~CommentOnly(line)
    /\ ~DirectiveLine(line)
    /\ Colons(CodePart(line)) # {}

\* the label name: the text before the first ':'
LabelName(line) == SubSeq(line, 1, Min(Colons(line)) - 1)

\* C8: label stripping uses the first ':' of the text left after comment
\* removal: with only white space after that colon the line gives no
\* instruction and no error; otherwise the instruction is classified from
\* the text after that first colon only, whatever the label name holds.
C8_LabelStripping ==
    Done =>
        \A n \in 1..Len(lines) :
            HasLabel(lines[n]) =>
                LET rest == AfterColon(CodePart(lines[n]))
                IN  IF Blank(rest)
                    THEN InstAt(n) = {} /\ ErrorsAt(n) = {}
                    ELSE OutcomeAt(n) = TextOutcome(rest)

\* a label that holds 'side', another that holds '[', each before a nop
C8_Witness ==
    /\ Done
    /\ \E n \in 1..Len(lines) :
           /\ HasLabel(lines[n])
           /\ \/ Index(LabelName(lines[n]), <<"s","i","d","e">>) >= 0
              \/ Index(LabelName(lines[n]), <<"[">>) >= 0
           /\ \E k \in InstAt(n) : result.Instructions[k].Op = <<"n","o","p">>

\* the line has a comment after text without ':'
HasPlainCodeAndComment(line) ==
    /\ Index(line, <<";">>) >= 0
    /\ Colons(CodePart(line)) = {}

\* C9: comment stripping runs before label stripping: for a line whose
\* text before the first ';' holds no ':', op and args are those of the
\* text before the ';' alone, whatever colons the comment holds, and the
\* comment field is the trimmed text after the first ';'.
C9_CommentBeforeLabel ==
    Done =>
        \A n \in 1..Len(lines) :
            HasPlainCodeAndComment(lines[n]) =>
                /\ OutcomeAt(n) = PlainLineOutcome(CodePart(lines[n]))
                /\ \A k \in InstAt(n) :
                       result.Instructions[k].Comment
                           = TrimSpace(CommentPart(lines[n]))

\* an instruction whose comment holds a colon
C9_Witness ==
    /\ Done
    /\ \E n \in 1..Len(lines) :
           /\ HasPlainCodeAndComment(lines[n])
           /\ Colons(CommentPart(lines[n])) # {}
           /\ \E k \in InstAt(n) :
                  /\ result.Instructions[k].Op = <<"n","o","p">>
                  /\ Colons(result.Instructions[k].Comment) # {}

\* a field free of the characters the loop searches for
PlainField(f) == \A k \in 1..Len(f) : f[k] \notin {";", ":", "[", "]"}

\* a delay annotation [N] in one field
DelayField(f) ==
    /\ Len(f) >= 3
    /\ f[1] = "["
    /\ f[Len(f)] = "]"
    /\ PlainField(SubSeq(f, 2, Len(f) - 1))

\* the fields of a line "<opcode> <args> side <value> [<delay>]"
IsSideDelayForm(f) ==
    /\ Len(f) >= 4
    /\ f[1] \in SpecOpcodes
    /\ \A k \in 2..(Len(f) - 3) : PlainField(f[k]) /\ Index(f[k], <<"s","i","d","e">>) < 0
    /\ f[Len(f) - 2] = <<"s","i","d","e">>
    /\ PlainField(f[Len(f) - 1])
    /\ DelayField(f[Len(f)])

\* the <args> of such a line
FormArgs(f) == Join(SubSeq(f, 2, Len(f) - 3), <<" ">>)

Eligible(line) ==
    /\ ~Blank(line)
    /\ ~CommentOnly(line)
    /\ ~DirectiveLine(line)
    /\ ~LabelOnly(line)

\* the instruction text: what is left without the comment and the label
InstructionText(line) ==
    LET code == CodePart(line)
    IN  IF Colons(code) # {} THEN AfterColon(code) ELSE code

\* the text before the first occurrence of sub, the whole text without one
Before(text, sub) ==
    IF Index(text, sub) < 0 THEN text ELSE SubSeq(text, 1, Index(text, sub))

\* the working line: the instruction text cut at 'side', then at '['
WorkingText(line) == Before(Before(InstructionText(line), <<"s","i","d","e">>), <<"[">>)

\* what the fields of a working line classify to
FieldsOutcome(text) ==
    LET f == Fields(text)
    IN  IF f = <<>> THEN {}
        ELSE {[op |-> ToLower(f[1]), args |-> Join(Tail(f), <<" ">>)]}

\* C11: mnemonic matching is case-insensitive and arguments keep their
\* case: op is the lowercased first field of the working line, so NOP, Nop
\* and nop give op nop and no error; args is the other fields joined by
\* single spaces, every character as written, empty when there are none.
C11_CaseHandling ==
    Done =>
        \A n \in 1..Len(lines) :
            LET f == Fields(WorkingText(lines[n]))
            IN  (Eligible(lines[n]) /\ f # <<>>) =>
                    /\ OutcomeAt(n) = {[op |-> ToLower(f[1]),
                                        args |-> Join(Tail(f), <<" ">>)]}
                    /\ ToLower(f[1]) \in SpecOpcodes => ErrorsAt(n) = {}

\* "Nop X, Y": op nop, args "X, Y" in capitals, no error
C11_Witness ==
    /\ Done
    /\ \E n \in 1..Len(lines) :
           /\ Fields(lines[n]) = <<<<"N","o","p">>, <<"X",",">>, <<"Y">>>>
           /\ OutcomeAt(n) = {[op |-> <<"n","o","p">>, args |-> <<"X",","," ","Y">>]}
           /\ ErrorsAt(n) = {}
    /\ result.Valid

\* the first token of the instruction text, as written
FirstToken(line) == Fields(InstructionText(line))[1]

\* C13 as stated: every line that is not blank, not comment-only, not a
\* directive and not label-only, and whose mnemonic (the first token of
\* its instruction text) is not a recognized opcode, contributes an error.
C13_Original ==
    Done =>
        \A n \in 1..Len(lines) :
            (/\ Eligible(lines[n])
             /\ Fields(InstructionText(lines[n])) # <<>>
             /\ ToLower(FirstToken(lines[n])) \notin SpecOpcodes)
                => ErrorsAt(n) # {}

\* C13, amended: every line that is not blank, not comment-only, not a
\* directive and not label-only, and whose instruction text, cut at the
\* first 'side' and then at the first '[', has a first token that is not a
\* recognized opcode, contributes exactly one error, which names the line
\* and that token lowercased; every such line of the source does, in one
\* pass.
C13_UnrecognizedLinesReported ==
    Done =>
        \A n \in 1..Len(lines) :
            LET f == Fields(WorkingText(lines[n]))
            IN  (/\ Eligible(lines[n])
                 /\ f # <<>>
                 /\ ToLower(f[1]) \notin SpecOpcodes)
                    => /\ Cardinality(ErrorsAt(n)) = 1
                       /\ \A k \in ErrorsAt(n) :
                              result.Errors[k]
                                  = UnknownOpcodeText(n, ToLower(f[1]))

\* two unrecognized lines with a recognized one between: both are reported
C13_Witness ==
    /\ Done
    /\ \E a, b, c \in 1..Len(lines) :
           /\ a < b /\ b < c
           /\ ErrorsAt(a) # {}
           /\ InstAt(b) # {} /\ ErrorsAt(b) = {}
           /\ ErrorsAt(c) # {}

\* C16: the side-stripping step cuts the working text (after comment and
\* label stripping) at the first lowercase 'side' wherever it is, inside an
\* operand or the mnemonic too; SIDE or Side is not cut and stays in the op
\* or the args (a later '[' still cuts what follows it).
C16_SideIsLiteral ==
    Done =>
        \A n \in 1..Len(lines) :
            LET w == InstructionText(lines[n])
            IN  Eligible(lines[n]) =>
                    IF Index(w, <<"s","i","d","e">>) >= 0
                    THEN OutcomeAt(n)
                             = FieldsOutcome(Before(SubSeq(w, 1, Index(w, <<"s","i","d","e">>)),
                                                    <<"[">>))
                    ELSE /\ OutcomeAt(n) = FieldsOutcome(Before(w, <<"[">>))
                         /\ Index(ToLower(Before(w, <<"[">>)), <<"s","i","d","e">>) >= 0 =>
                                \E k \in InstAt(n) :
                                    Index(ToLower(result.Instructions[k].Op
                                              \o <<" ">>
                                              \o result.Instructions[k].Args),
                                          <<"s","i","d","e">>) >= 0

\* "jmp side_loop" loses its operand, "SIDE 1" keeps SIDE as its op,
\* "nopside" is cut to nop, "mov x, Side" keeps Side in its args
C16_Witness ==
    /\ Done
    /\ Len(lines) = 4
    /\ lines[1] = <<"j","m","p"," ","s","i","d","e","_","l","o","o","p">>
    /\ OutcomeAt(1) = {[op |-> <<"j","m","p">>, args |-> <<>>]}
    /\ lines[2] = <<"S","I","D","E"," ","1">>
    /\ OutcomeAt(2) = {[op |-> <<"s","i","d","e">>, args |-> <<"1">>]}
    /\ lines[3] = <<"n","o","p","s","i","d","e">>
    /\ OutcomeAt(3) = {[op |-> <<"n","o","p">>, args |-> <<>>]}
    /\ OutcomeAt(4) = {[op |-> <<"m","o","v">>, args |-> <<"x",","," ","S","i","d","e">>]}

\* the lines that are eligible and keep at least one field
LinesWithFields ==
    {n \in 1..Len(lines) :
        Eligible(lines[n]) /\ Fields(WorkingText(lines[n])) # <<>>}

\* C17: a line whose working text has no field left after side-set and
\* delay stripping is discarded: no instruction, no error, and it does not
\* count toward the limit of 32 instructions.
C17_EmptyWorkingLine ==
    Done =>
        /\ \A n \in 1..Len(lines) :
               (Eligible(lines[n]) /\ Fields(WorkingText(lines[n])) = <<>>)
                   => (InstAt(n) = {} /\ ErrorsAt(n) = {})
        /\ (\E k \in 1..Len(result.Errors) : IsLengthError(result.Errors[k]))
               <=> Cardinality(LinesWithFields) > 32
        /\ Len(result.Instructions) = Cardinality(LinesWithFields)

\* "side 1" and "l: [3]" before 32 nop lines: 34 lines, a valid program
C17_Witness ==
    /\ Done
    /\ Len(lines) >= 34
    /\ lines[1] = <<"s","i","d","e"," ","1">>
    /\ lines[2] = <<"l",":"," ","[","3","]">>
    /\ Len(result.Instructions) = 32
    /\ result.Valid

\* the reports of the three built-in examples
SquarewaveReport ==
    ValidateResult(TRUE,
        << PIOInstruction(3, <<"s","e","t">>, <<"p","i","n","s",","," ","1">>, <<"D","r","i","v","e"," ","p","i","n"," ","h","i","g","h"," ","a","n","d"," ","d","e","l","a","y">>),
           PIOInstruction(4, <<"s","e","t">>, <<"p","i","n","s",","," ","0">>, <<"D","r","i","v","e"," ","p","i","n"," ","l","o","w">>),
           PIOInstruction(5, <<"j","m","p">>, <<"a","g","a","i","n">>, <<"L","o","o","p">>) >>,
        <<>>)

Ws2812Report ==
    ValidateResult(TRUE,
        << PIOInstruction(4, <<"o","u","t">>, <<"x",","," ","1">>, <<"S","h","i","f","t"," ","1"," ","b","i","t",","," ","d","r","i","v","e"," ","l","o","w">>),
           PIOInstruction(5, <<"j","m","p">>, <<"!","x",","," ","d","o","_","z","e","r","o">>, <<"B","r","a","n","c","h"," ","o","n"," ","b","i","t"," ","v","a","l","u","e">>),
           PIOInstruction(6, <<"j","m","p">>, <<"b","i","t","l","o","o","p">>, <<"B","i","t"," ","i","s"," ","1",":"," ","l","o","n","g"," ","p","u","l","s","e">>),
           PIOInstruction(8, <<"n","o","p">>, <<>>, <<"B","i","t"," ","i","s"," ","0",":"," ","s","h","o","r","t"," ","p","u","l","s","e">>) >>,
        <<>>)

SpiTxReport ==
    ValidateResult(TRUE,
        << PIOInstruction(3, <<"o","u","t">>, <<"p","i","n","s",","," ","1">>, <<"W","r","i","t","e"," ","d","a","t","a",","," ","c","l","o","c","k"," ","l","o","w">>),
           PIOInstruction(4, <<"n","o","p">>, <<>>, <<"C","l","o","c","k"," ","h","i","g","h">>) >>,
        <<>>)

\* C18: each built-in example (squarewave, ws2812, spi_tx), passed
\* unchanged to validatePIO, is valid with no errors and 3, 4 and 2
\* instructions, each carrying its inline comment.
C18_ExamplesValid ==
    Done =>
        /\ source = ExampleSquarewave => result = SquarewaveReport
        /\ source = ExampleWs2812 => result = Ws2812Report
        /\ source = ExampleSpiTx => result = SpiTxReport

\* the ws2812 example has been validated: 4 instructions, all with comments
C18_Witness ==
    /\ Done
    /\ source = ExampleWs2812
    /\ result.Valid
    /\ Len(result.Instructions) = 4
    /\ \A k \in 1..4 : result.Instructions[k].Comment # <<>>

\* C19: every reported instruction is well formed: op is not empty and
\* holds no white space, ';', '[' or capital letter; args holds no ';',
\* no '[', no 'side', no white space at either end, and one space between
\* its fields; comment has no white space at either end.
C19_InstructionShape ==
    Done =>
        \A k \in 1..Len(result.Instructions) :
            LET op      == result.Instructions[k].Op
                args    == result.Instructions[k].Args
                comment == result.Instructions[k].Comment
            IN  /\ op # <<>>
                /\ \A j \in 1..Len(op) :
                       /\ ~IsSpace(op[j])
                       /\ op[j] \notin {";", "["}
                       /\ \A u \in 1..Len(UpperCase) : op[j] # UpperCase[u]
                /\ \A j \in 1..Len(args) : args[j] \notin {";", "["}
                /\ Index(args, <<"s","i","d","e">>) < 0
                /\ args = TrimSpace(args)
                /\ args = Join(Fields(args), <<" ">>)
                /\ comment = TrimSpace(comment)

\* an instruction with operands and a comment, from a line that had a
\* mnemonic in capitals, a side-set, a delay and double gaps
C19_Witness ==
    /\ Done
    /\ \E k \in 1..Len(result.Instructions) :
           LET line == lines[result.Instructions[k].Line]
           IN  /\ result.Instructions[k].Op = <<"s","e","t">>
               /\ result.Instructions[k].Args = <<"p","i","n","s",","," ","1">>
               /\ result.Instructions[k].Comment # <<>>
               /\ Index(line, <<"S","E","T">>) >= 0
               /\ Index(line, <<" "," ","s","i","d","e">>) >= 0
               /\ Index(line, <<"[">>) >= 0

(***************************************************************************)
(* Several callers.  net/http runs every request's handler in a goroutine  *)
(* of its own, so calls of validatePIO overlap; each call has its own      *)
(* parameter and locals and all of them read the one map validOpcodes.     *)
(* The host may gain or lose the pioasm binary at any moment.              *)
(***************************************************************************)
\* how many calls the callers make in one behaviour
MaxCalls == 3

\* the source texts the callers pass
CallSources ==
    { <<>>, <<"b","a","d">>,
      <<"[","3","]">> \o <<NL>> \o <<"b","a","d"," ","x">>,
      <<"l",":">> \o <<NL>> \o <<"f","o","o">> \o <<NL>> \o <<"b","a","r",":"," ","J","M","P"," ","l"," ",";"," ","c">> }

\* calls made so far: reports received and calls still running
CallsMade ==
    Len(history) + (IF pc = "idle" THEN 0 ELSE 1)
                 + (IF other.pc = "idle" THEN 0 ELSE 1)

\* faulty variant: errors is kept between calls instead of being declared
\* afresh
CallKeepsErrors ==
    /\ pc = "idle"
    /\ CallsMade < MaxCalls
    /\ \E s \in CallSources :
        /\ source' = s
        /\ lines' = Split(s, NL)
    /\ i' = 0
    /\ instructions' = <<>>
    /\ pc' = "loop"
    /\ UNCHANGED <<errors, result, opcodes, outside>>

\* a caller enters validatePIO(source): the split, and the fresh locals
Call ==
    /\ pc = "idle"
    /\ CallsMade < MaxCalls
    /\ \E s \in CallSources :
        /\ source' = s
        /\ lines' = Split(s, NL)
    /\ i' = 0
    /\ instructions' = <<>>
    /\ errors' = <<>>
    /\ pc' = "loop"
    /\ UNCHANGED <<result, opcodes, outside>>

\* the caller has the returned report
Receive ==
    /\ pc = "done"
    /\ history' = Append(history,
                         [source |-> source, report |-> result, pioasm |-> pioasm])
    /\ pc' = "idle"
    /\ UNCHANGED <<source, lines, i, instructions, errors, result, opcodes,
                   other, pioasm, req, resp, hpc, bodyRead>>

\* one step of a call held in a record: one loop iteration, or the return
CallStep(c) ==
    IF c.i < Len(c.lines)
    THEN LET p == ParseLine(c.lines[c.i + 1], c.i + 1) IN
         IF p.kind = "inst"
         THEN [c EXCEPT !.i = @ + 1,
                        !.instructions = Append(@, p.inst),
                        !.errors = @ \o OpcodeErrors(p.inst)]
         ELSE [c EXCEPT !.i = @ + 1]
    ELSE LET errs == c.errors \o LengthErrors(c.instructions) IN
         [c EXCEPT !.errors = errs,
                   !.result = ValidateResult(ValidOf(errs), c.instructions, errs),
                   !.pc = "done"]

\* the second goroutine enters validatePIO
OtherCall ==
    /\ other.pc = "idle"
    /\ CallsMade < MaxCalls
    /\ \E s \in CallSources :
        other' = [source |-> s, lines |-> Split(s, NL), i |-> 0,
                  instructions |-> <<>>, errors |-> <<>>, pc |-> "loop",
                  result |-> NoResult]
    /\ UNCHANGED <<source, lines, i, instructions, errors, pc, result, opcodes,
                   pioasm, history, req, resp, hpc, bodyRead>>

\* the second goroutine runs one step of its call
OtherStep ==
    /\ other.pc = "loop"
    /\ other' = CallStep(other)
    /\ UNCHANGED <<source, lines, i, instructions, errors, pc, result, opcodes,
                   pioasm, history, req, resp, hpc, bodyRead>>

\* the second goroutine's caller has the returned report, and the goroutine
\* ends
OtherReceive ==
    /\ other.pc = "done"
    /\ history' = Append(history,
                         [source |-> other.source, report |-> other.result,
                          pioasm |-> pioasm])
    /\ other' = NoCall
    /\ UNCHANGED <<source, lines, i, instructions, errors, pc, result, opcodes,
                   pioasm, req, resp, hpc, bodyRead>>

\* pioasm is installed on the host, or removed from it
SetPioasm ==
    /\ pioasm' = ~pioasm
    /\ UNCHANGED <<source, lines, i, instructions, errors, pc, result, opcodes,
                   other, history, req, resp, hpc, bodyRead>>

InitCalls ==
    /\ source = <<>>
    /\ lines = <<>>
    /\ i = 0
    /\ instructions = <<>>
    /\ errors = <<>>
    /\ pc = "idle"
    /\ result = NoResult
    /\ opcodes = validOpcodes
    /\ other = NoCall
    /\ pioasm \in BOOLEAN
    /\ history = <<>>
    /\ req = NoRequest
    /\ resp = NoResponse
    /\ hpc = "idle"
    /\ bodyRead = FALSE

NextCalls ==
    \/ Call
    \/ SkipDiscarded
    \/ SkipLabel
    \/ SkipEmpty
    \/ AppendInstruction
    \/ Return
    \/ Receive
    \/ OtherCall
    \/ OtherStep
    \/ OtherReceive
    \/ SetPioasm

SpecCalls == InitCalls /\ [][NextCalls]_vars

(***************************************************************************)
(* Claims about repeated and overlapping calls.                            *)
(***************************************************************************)
\* the report of a source text validated by a call that runs alone
AloneReport(src) ==
    LET insts == ClassifiedFrom(Split(src, NL), 1)
        errs  == ExpectedOpcodeErrors(insts)
                 \o (IF Len(insts) > 32 THEN <<TooManyText(Len(insts))>> ELSE <<>>)
    IN  [Valid |-> errs = <<>>, Instructions |-> insts, Errors |-> errs]

\* C12: the report is a function of the source text alone: two validations
\* of the same source text, whatever was validated in between and whether or
\* not pioasm was installed when each returned, give identical reports, and a
\* call starts from nothing an earlier call left behind.
C12_FunctionOfSource ==
    /\ \A a, b \in 1..Len(history) :
           history[a].source = history[b].source
               => history[a].report = history[b].report
    /\ (pc = "loop" /\ i = 0) => (instructions = <<>> /\ errors = <<>>)

\* the same source validated twice, once with and once without pioasm, with
\* a validation of another source that reported an error in between
C12_Witness ==
    /\ Len(history) = 3
    /\ history[1].source = history[3].source
    /\ history[1].pioasm # history[3].pioasm
    /\ history[2].source # history[1].source
    /\ history[2].report.Errors # <<>>
    /\ history[1].report.Errors # <<>>
    /\ history[1].report.Instructions # <<>>

\* C14: overlapping calls do not interfere: whatever the interleaving, each
\* call returns the report its source gets from a call that runs alone, and
\* the opcode set is exactly jmp, wait, in, out, push, pull, mov, irq, set,
\* nop in every state.
C14_NoInterference ==
    /\ opcodes = SpecOpcodes
    /\ Done => result = AloneReport(source)
    /\ other.pc = "done" => other.result = AloneReport(other.source)
    /\ \A k \in 1..Len(history) :
           history[k].report = AloneReport(history[k].source)

\* two calls on different sources are both inside the loop, and each has
\* already looked up an op that is not in the set
C14_Witness ==
    /\ pc = "loop"
    /\ other.pc = "loop"
    /\ source # other.source
    /\ i >= 1
    /\ other.i >= 1
    /\ errors # <<>>
    /\ other.errors # <<>>

(***************************************************************************)
(* handleValidate(w, r): the /api/validate handler.                        *)
(*                                                                         *)
(* A request body is described by what the decoder finds in it:            *)
(*   json      "empty" (no bytes), "malformed" (a syntax error in the      *)
(*             first value), "null", "array", "string", "number", or       *)
(*             "object";                                                   *)
(*   field     for an object, its "source" member: "absent", "null",       *)
(*             "number" or "string";                                       *)
(*   source    the text of a "string" member;                              *)
(*   trailing  whether more bytes follow the object's closing brace.       *)
(* In a JSON value written by the encoder an omitted key or a null is the  *)
(* empty tuple and a present value v is <<v>>.                             *)
(***************************************************************************)
Methods == {"GET", "POST", "PUT", "DELETE"}

\* the source texts sent in request bodies
BodySources ==
    TestSources \cup EdgeSources
        \cup {ExampleSquarewave, ExampleWs2812, ExampleSpiTx}

Bodies ==
    { [json |-> k, field |-> "absent", source |-> <<>>, trailing |-> FALSE] :
          k \in {"empty", "malformed", "null", "array", "string", "number"} }
    \cup { [json |-> "object", field |-> f, source |-> <<>>, trailing |-> t] :
               f \in {"absent", "null", "number"}, t \in BOOLEAN }
    \cup { [json |-> "object", field |-> "string", source |-> src, trailing |-> t] :
               src \in BodySources, t \in BOOLEAN }

Requests == { [method |-> m, body |-> b] : m \in Methods, b \in Bodies }

\* json.NewDecoder(r.Body).Decode(&req) with req struct{ Source string }:
\* the decoder reads one value and stops at its end; null leaves req as it
\* is; a value that is not an object, or a source member that is not a
\* string or null, is an error, as are no value and a syntax error
DecodeRequest(b) ==
    CASE b.json = "empty"     -> [err |-> TRUE,  Source |-> <<>>]
      [] b.json = "malformed" -> [err |-> TRUE,  Source |-> <<>>]
      [] b.json = "null"      -> [err |-> FALSE, Source |-> <<>>]
      [] b.json = "object"    ->
            ( CASE b.field = "absent" -> [err |-> FALSE, Source |-> <<>>]
                [] b.field = "null"   -> [err |-> FALSE, Source |-> <<>>]
                [] b.field = "string" -> [err |-> FALSE, Source |-> b.source]
                [] OTHER              -> [err |-> TRUE,  Source |-> <<>>] )
      [] OTHER                -> [err |-> TRUE,  Source |-> <<>>]

\* a string member tagged omitempty
OmitEmpty(v) == IF v = <<>> THEN <<>> ELSE <<v>>

\* json encoding of a PIOInstruction
EncodeInstruction(x) ==
    [line |-> x.Line, op |-> x.Op,
     args |-> OmitEmpty(x.Args), comment |-> OmitEmpty(x.Comment)]

\* json.NewEncoder(w).Encode(result): a nil instructions slice is null, an
\* empty errors slice is omitted
EncodeReport(r) ==
    [valid |-> r.Valid,
     instructions |->
         IF r.Instructions = <<>> THEN <<>>
         ELSE << [k \in 1..Len(r.Instructions) |->
                      EncodeInstruction(r.Instructions[k])] >>,
     errors |-> OmitEmpty(r.Errors)]

\* http.Error(w, text, code)
HttpError(text, code) == [status |-> code, text |-> text \o <<NL>>, json |-> <<>>]

\* faulty variant: the body is decoded before the method is looked at
MethodCheckedAfterBody ==
    /\ hpc = "start"
    /\ req.method # "POST"
    /\ bodyRead' = TRUE
    /\ resp' = IF DecodeRequest(req.body).err
               THEN HttpError(<<"i","n","v","a","l","i","d"," ","J","S","O","N">>, 400)
               ELSE HttpError(<<"P","O","S","T"," ","r","e","q","u","i","r","e","d">>, 405)
    /\ hpc' = "done"
    /\ UNCHANGED <<source, lines, i, instructions, errors, pc, result, opcodes,
                   other, pioasm, history, req>>

\* r.Method != http.MethodPost: 405, and return
MethodNotAllowed ==
    /\ hpc = "start"
    /\ req.method # "POST"
    /\ resp' = HttpError(<<"P","O","S","T"," ","r","e","q","u","i","r","e","d">>, 405)
    /\ hpc' = "done"
    /\ UNCHANGED <<source, lines, i, instructions, errors, pc, result, opcodes,
                   other, pioasm, history, req, bodyRead>>

\* the decoder returns an error: 400, and return
BadRequest ==
    /\ hpc = "start"
    /\ req.method = "POST"
    /\ DecodeRequest(req.body).err
    /\ bodyRead' = TRUE
    /\ resp' = HttpError(<<"i","n","v","a","l","i","d"," ","J","S","O","N">>, 400)
    /\ hpc' = "done"
    /\ UNCHANGED <<source, lines, i, instructions, errors, pc, result, opcodes,
                   other, pioasm, history, req>>

\* the body decodes: validatePIO(req.Source) is entered
Validate ==
    /\ hpc = "start"
    /\ req.method = "POST"
    /\ ~DecodeRequest(req.body).err
    /\ bodyRead' = TRUE
    /\ source' = DecodeRequest(req.body).Source
    /\ lines' = Split(DecodeRequest(req.body).Source, NL)
    /\ i' = 0
    /\ instructions' = <<>>
    /\ errors' = <<>>
    /\ pc' = "loop"
    /\ hpc' = "validate"
    /\ UNCHANGED <<result, opcodes, other, pioasm, history, req, resp>>

\* validatePIO has returned: the header is set and the result encoded, which
\* sends status 200
Respond ==
    /\ hpc = "validate"
    /\ pc = "done"
    /\ resp' = [status |-> 200, text |-> <<>>, json |-> <<EncodeReport(result)>>]
    /\ hpc' = "done"
    /\ UNCHANGED <<source, lines, i, instructions, errors, pc, result, opcodes,
                   other, pioasm, history, req, bodyRead>>

\* how many requests the server is sent in one behaviour
MaxRequests == 3

\* the handler has returned; the status sent is noted and the server calls
\* the handler for the next request, with a new frame
NextRequest ==
    /\ hpc = "done"
    /\ Len(history) + 1 < MaxRequests
    /\ history' = Append(history, resp.status)
    /\ req' \in Requests
    /\ resp' = NoResponse
    /\ hpc' = "start"
    /\ bodyRead' = FALSE
    /\ source' = <<>>
    /\ lines' = <<>>
    /\ i' = 0
    /\ instructions' = <<>>
    /\ errors' = <<>>
    /\ pc' = "idle"
    /\ result' = NoResult
    /\ UNCHANGED <<opcodes, other, pioasm>>

InitHandler ==
    /\ source = <<>>
    /\ lines = <<>>
    /\ i = 0
    /\ instructions = <<>>
    /\ errors = <<>>
    /\ pc = "idle"
    /\ result = NoResult
    /\ opcodes = validOpcodes
    /\ other = NoCall
    /\ pioasm \in BOOLEAN
    /\ history = <<>>
    /\ req \in Requests
    /\ resp = NoResponse
    /\ hpc = "start"
    /\ bodyRead = FALSE

NextHandler ==
    \/ MethodNotAllowed
    \/ BadRequest
    \/ Validate
    \/ SkipDiscarded
    \/ SkipLabel
    \/ SkipEmpty
    \/ AppendInstruction
    \/ Return
    \/ Respond
    \/ NextRequest

SpecHandler == InitHandler /\ [][NextHandler]_vars

(***************************************************************************)
(* The claim about the handler.                                            *)
(***************************************************************************)
\* a body the request's source field can be decoded from: JSON null, or an
\* object whose source member is missing, null or a string
Decodable(b) ==
    \/ b.json = "null"
    \/ b.json = "object" /\ b.field \in {"absent", "null", "string"}

\* the request's source field
SourceField(b) ==
    IF b.json = "object" /\ b.field = "string" THEN b.source ELSE <<>>

\* the validator has not been entered
ValidatorNotRun == pc = "idle" /\ result = NoResult

\* C15: a request whose method is not POST is answered 405 without the body
\* being decoded or the validator run, whatever the body (the method check
\* comes first); a POST whose body does not decode is answered 400 without
\* the validator run; every other POST is answered 200 with the encoded
\* report of its source field.
C15_HandlerAnswers ==
    /\ (req.method # "POST" \/ ~Decodable(req.body)) => ValidatorNotRun
    /\ req.method # "POST" => ~bodyRead
    /\ \A k \in 1..Len(history) : history[k] \in {200, 400, 405}
    /\ hpc = "done" =>
          IF req.method # "POST" THEN resp.status = 405 /\ resp.json = <<>>
          ELSE IF ~Decodable(req.body) THEN resp.status = 400 /\ resp.json = <<>>
          ELSE /\ resp.status = 200
               /\ resp.json = <<EncodeReport(AloneReport(SourceField(req.body)))>>

\* every branch has answered: after a 400 and a 200, a request that is not
\* a POST and whose body does not decode got 405 with its body unread
C15_Witness ==
    /\ hpc = "done"
    /\ history = <<400, 200>>
    /\ req.method = "GET"
    /\ req.body.json = "malformed"
    /\ resp.status = 405
    /\ ~bodyRead

====
